---- MODULE Spec2Model ----
(***************************************************************************)
(* A model of img_watermark.py: the interactive batch driver (main), the   *)
(* per-file pipeline (process_image), the input parsers, the EXIF date     *)
(* reader and the watermark placement arithmetic.                          *)
(*                                                                         *)
(* Strings are sequences of one-character strings.  Python's None is the   *)
(* string "None", or << >> where the value is not a string.  Floats that the code only compares or clamps are kept   *)
(* as exact rationals [n, d].                                              *)
(***************************************************************************)
EXTENDS Integers, Sequences, FiniteSets, TLC

VARIABLES
    pc,          \* position of the program / of the function under study
    fs,          \* the file system seen by main: the input path and the output directory
    targets,     \* main: the list `targets`
    done,        \* main: number of targets whose process_image call has returned
    outcomes,    \* per target: what process_image did with it
    console,     \* the lines printed so far
    exit_status, \* "None" while running, else the process exit status
    cfg,         \* main: color, mode, ratio, px, pos and the text typed at each prompt
    lay,         \* process_image: the placement computation of one image
    prs,         \* parse_font_input / parse_color_input: input string and result
    exf          \* read_exif_date: the tags of one file and the result

vars == <<pc, fs, targets, done, outcomes, console, exit_status, cfg, lay, prs, exf>>

None == "None"
\* An optional value that is not a string: << >> for Python's None (or for a raised
\* ValueError), <<v>> for the value v.
Nothing == << >>
Some(v) == <<v>>

\* ------------------------------------------------------------------ bounds

MaxW == 170        \* widest image of the placement model
MaxH == 10         \* tallest image of the placement model
MaxMargin == 14    \* the watermark is at most this much narrower than the image ...
MaxMarginH == 1    \* ... this much shorter ...
MaxOver == 1       \* ... and at most this much wider (taller)
MaxFontLen == 4    \* longest text typed at the size prompt
MaxColorLen == 7   \* longest text typed at the color prompt
MaxDates == 3      \* distinct capture dates a file's tags may carry
MaxFiles == 2      \* most entries in the input directory

\* ------------------------------------------------------- program constants

DEFAULT_PADDING == 12

\* ----------------------------------------------------------------- helpers

Max(a, b) == IF a >= b THEN a ELSE b

\* Python's round() of the non-negative rational n/d: to nearest, ties to even.
RoundHalfEven(n, d) ==
    LET q == n \div d
        r == n % d
    IN  IF 2 * r > d \/ (2 * r = d /\ q % 2 = 1) THEN q + 1 ELSE q

\* int(round(img_w * RIGHT_OFFSET_RATIO)), RIGHT_OFFSET_RATIO = 0.08
right_offset(img_w) == RoundHalfEven(img_w * 8, 100)
\* int(round(img_h * BOTTOM_OFFSET_RATIO)), BOTTOM_OFFSET_RATIO = 0.05
bottom_offset(img_h) == RoundHalfEven(img_h * 5, 100)

\* ----------------------------------------------------------------- strings

\* str.strip() / str.lower(); the whitespace and the upper-case letters are
\* those of the alphabets below.
RECURSIVE LStrip(_)
LStrip(s) == IF s # << >> /\ Head(s) = " " THEN LStrip(Tail(s)) ELSE s
RECURSIVE RStrip(_)
RStrip(s) == IF s # << >> /\ s[Len(s)] = " " THEN RStrip(SubSeq(s, 1, Len(s) - 1)) ELSE s
Strip(s) == RStrip(LStrip(s))

LowerChar(c) ==
    CASE c = "A" -> "a" [] c = "B" -> "b" [] c = "C" -> "c" [] c = "F" -> "f"
      [] c = "G" -> "g" [] c = "L" -> "l" [] c = "N" -> "n" [] c = "P" -> "p"
      [] c = "R" -> "r" [] c = "T" -> "t" [] c = "X" -> "x" [] OTHER -> c
Lower(s) == [i \in 1..Len(s) |-> LowerChar(s[i])]

EndsWith(s, suffix) ==
    /\ Len(s) >= Len(suffix)
    /\ SubSeq(s, Len(s) - Len(suffix) + 1, Len(s)) = suffix
DropLast(s, k) == SubSeq(s, 1, Len(s) - k)

DigitChars == {"0", "1", "2", "3", "4", "5", "6", "7", "8", "9"}
HexChars == DigitChars \cup {"a", "b", "c", "d", "e", "f", "A", "B", "C", "D", "E", "F"}
HexVal(c) ==
    CASE c = "0" -> 0 [] c = "1" -> 1 [] c = "2" -> 2 [] c = "3" -> 3 [] c = "4" -> 4
      [] c = "5" -> 5 [] c = "6" -> 6 [] c = "7" -> 7 [] c = "8" -> 8 [] c = "9" -> 9
      [] c \in {"a", "A"} -> 10 [] c \in {"b", "B"} -> 11 [] c \in {"c", "C"} -> 12
      [] c \in {"d", "D"} -> 13 [] c \in {"e", "E"} -> 14 [] c \in {"f", "F"} -> 15

AllIn(s, chars) == \A i \in 1..Len(s) : s[i] \in chars

RECURSIVE NatOf(_)
NatOf(s) == IF s = << >> THEN 0 ELSE 10 * NatOf(DropLast(s, 1)) + HexVal(s[Len(s)])

RECURSIVE Pow10(_)
Pow10(e) == IF e = 0 THEN 1 ELSE 10 * Pow10(e - 1)

\* All strings over `chars` of length at most n.
RECURSIVE Strings(_, _)
Strings(chars, n) ==
    IF n = 0 THEN {<< >>}
    ELSE LET shorter == Strings(chars, n - 1)
         IN  shorter \cup {Append(t, c) : t \in shorter, c \in chars}

\* int(s): optional surrounding whitespace, optional sign, at least one digit.
\* Nothing stands for the ValueError.
ParseInt(s) ==
    LET t    == Strip(s)
        sgn  == t # << >> /\ Head(t) \in {"-", "+"}
        body == IF sgn THEN Tail(t) ELSE t
    IN  IF body # << >> /\ AllIn(body, DigitChars)
        THEN Some(IF sgn /\ Head(t) = "-" THEN 0 - NatOf(body) ELSE NatOf(body))
        ELSE Nothing

\* float(s) on decimal literals: optional surrounding whitespace, optional sign,
\* digits with at most one point and at least one digit.  The value is m / 10^e.
\* Nothing stands for the ValueError.
ParseFloat(s) ==
    LET t    == Strip(s)
        sgn  == t # << >> /\ Head(t) \in {"-", "+"}
        body == IF sgn THEN Tail(t) ELSE t
        dots == {i \in 1..Len(body) : body[i] = "."}
        dot  == IF dots = {} THEN Len(body) + 1 ELSE CHOOSE i \in dots : TRUE
        ip   == SubSeq(body, 1, dot - 1)
        fp   == SubSeq(body, dot + 1, Len(body))
    IN  IF /\ Cardinality(dots) <= 1
           /\ AllIn(ip, DigitChars) /\ AllIn(fp, DigitChars)
           /\ Len(ip) + Len(fp) >= 1
        THEN Some([m |-> (IF sgn /\ Head(t) = "-" THEN 0 - NatOf(ip \o fp)
                                                        ELSE NatOf(ip \o fp)),
                   e |-> Len(fp)])
        ELSE Nothing

\* ---------------------------------------------------------- the parsers

\* DEFAULT_TARGET_RATIO = 0.10
DEFAULT_TARGET_RATIO == [n |-> 1, d |-> 10]
AutoResult == [mode |-> "auto", ratio |-> Some(DEFAULT_TARGET_RATIO), pixels |-> Nothing]

\* The clamp without its upper end: min(1.0, .) left out.
ClampRatio_NoUpper(num) ==
    LET d == Pow10(num.e + 2)
    IN  IF num.m * 1000 > d THEN [n |-> num.m, d |-> d] ELSE [n |-> 1, d |-> 1000]

\* max(0.001, min(1.0, num / 100.0))
ClampRatio(num) ==
    LET d  == Pow10(num.e + 2)
        lo == IF num.m < d THEN [n |-> num.m, d |-> d] ELSE [n |-> 1, d |-> 1]
    IN  IF lo.n * 1000 > lo.d THEN lo ELSE [n |-> 1, d |-> 1000]

\* int(num) of a float: truncation toward zero
IntOfFloat(num) ==
    IF num.m >= 0 THEN num.m \div Pow10(num.e) ELSE 0 - ((0 - num.m) \div Pow10(num.e))

parse_font_input(s) ==
    LET raw == Lower(Strip(s))
    IN  IF raw = << >> \/ raw = <<"a", "u", "t", "o">> THEN AutoResult
        ELSE IF EndsWith(raw, <<"%">>) THEN
            LET num == ParseFloat(DropLast(raw, 1))
            IN  IF num = Nothing THEN AutoResult
                ELSE [mode |-> "ratio", ratio |-> Some(ClampRatio(num[1])),
                      pixels |-> Nothing]
        ELSE IF EndsWith(raw, <<"p", "x">>) THEN
            LET px == ParseInt(DropLast(raw, 2))
            IN  IF px = Nothing THEN AutoResult
                ELSE [mode |-> "pixels", ratio |-> Nothing, pixels |-> Some(Max(1, px[1]))]
        ELSE
            LET num == ParseFloat(raw)
            IN  IF num = Nothing THEN AutoResult
                ELSE IF num[1].m <= 100 * Pow10(num[1].e)
                     THEN [mode |-> "ratio", ratio |-> Some(ClampRatio(num[1])),
                           pixels |-> Nothing]
                     ELSE [mode |-> "pixels", ratio |-> Nothing,
                           pixels |-> Some(Max(1, IntOfFloat(num[1])))]

\* int(pair, 16) of a two-character string: two hex digits, or a sign or a
\* blank followed by one hex digit, or one hex digit followed by a blank.
\* Nothing stands for the ValueError.
HexPair(a, b) ==
    IF a \in HexChars /\ b \in HexChars THEN Some(16 * HexVal(a) + HexVal(b))
    ELSE IF a \in {"+", " "} /\ b \in HexChars THEN Some(HexVal(b))
    ELSE IF a = "-" /\ b \in HexChars THEN Some(0 - HexVal(b))
    ELSE IF a \in HexChars /\ b = " " THEN Some(HexVal(a))
    ELSE Nothing

DEFAULT_COLOR_HEX == <<"#", "F", "F", "F", "F", "F", "F">>

\* Returns [ok |-> TRUE, rgba] or, for the ValueError, [ok |-> FALSE, err].
parse_hex_color_to_rgba(s) ==
    LET s0 == IF s = << >> THEN DEFAULT_COLOR_HEX ELSE s
        s1 == Strip(s0)
        s2 == IF s1 # << >> /\ Head(s1) = "#" THEN Tail(s1) ELSE s1
        s3 == IF Len(s2) = 3 THEN <<s2[1], s2[1], s2[2], s2[2], s2[3], s2[3]>> ELSE s2
    IN  IF Len(s3) # 6 THEN [ok |-> FALSE, err |-> "length", rgba |-> Nothing]
        ELSE LET r == HexPair(s3[1], s3[2])
                 g == HexPair(s3[3], s3[4])
                 b == HexPair(s3[5], s3[6])
             IN  IF r = Nothing \/ g = Nothing \/ b = Nothing
                 THEN [ok |-> FALSE, err |-> "hex", rgba |-> Nothing]
                 ELSE [ok |-> TRUE, err |-> None, rgba |-> <<r[1], g[1], b[1], 255>>]

\* Returns the color and whether the warning line was printed.
parse_color_input(s) ==
    LET t == Strip(s)
    IN  IF t = << >>
        THEN [color |-> parse_hex_color_to_rgba(DEFAULT_COLOR_HEX).rgba, warning |-> FALSE]
        ELSE LET p == parse_hex_color_to_rgba(t)
             IN  IF p.ok THEN [color |-> p.rgba, warning |-> FALSE]
                 ELSE [color |-> parse_hex_color_to_rgba(DEFAULT_COLOR_HEX).rgba,
                       warning |-> TRUE]

DEFAULT_POS == "bottomright"

\* mapping.get(raw): None when raw is no key of the dictionary
mapping_get(raw) ==
    CASE raw = <<"t", "o", "p", "-", "l", "e", "f", "t">> -> "topleft"
      [] raw = <<"t", "o", "p", "_", "l", "e", "f", "t">> -> "topleft"
      [] raw = <<"t", "o", "p", "l", "e", "f", "t">> -> "topleft"
      [] raw = <<"t", "o", "p", "-", "r", "i", "g", "h", "t">> -> "topright"
      [] raw = <<"t", "o", "p", "_", "r", "i", "g", "h", "t">> -> "topright"
      [] raw = <<"t", "o", "p", "r", "i", "g", "h", "t">> -> "topright"
      [] raw = <<"c", "e", "n", "t", "e", "r">> -> "center"
      [] raw = <<"b", "o", "t", "t", "o", "m", "-", "l", "e", "f", "t">> -> "bottomleft"
      [] raw = <<"b", "o", "t", "t", "o", "m", "_", "l", "e", "f", "t">> -> "bottomleft"
      [] raw = <<"b", "o", "t", "t", "o", "m", "l", "e", "f", "t">> -> "bottomleft"
      [] raw = <<"b", "o", "t", "t", "o", "m", "-", "r", "i", "g", "h", "t">> -> "bottomright"
      [] raw = <<"b", "o", "t", "t", "o", "m", "_", "r", "i", "g", "h", "t">> -> "bottomright"
      [] raw = <<"b", "o", "t", "t", "o", "m", "r", "i", "g", "h", "t">> -> "bottomright"
      [] OTHER -> None

parse_position_input(s) ==
    LET raw == Lower(Strip(s))
    IN  IF mapping_get(raw) = None THEN DEFAULT_POS ELSE mapping_get(raw)

Positions == {"topleft", "topright", "center", "bottomleft", "bottomright"}

\* ------------------------------------------- process_image: the placement

\* The bottom-right branch without its clamp to 0 (a sign slip in the fallback).
BottomRight_NoClamp(img_w, img_h, tw, th) ==
    LET x0 == img_w - tw - right_offset(img_w)
        y0 == img_h - th - bottom_offset(img_h)
    IN  [x |-> IF x0 < 0 THEN img_w - tw - DEFAULT_PADDING ELSE x0,
         y |-> IF y0 < 0 THEN img_h - th - DEFAULT_PADDING ELSE y0]

\* The bottom-right branch falling back to a bare clamp instead of the padding formula.
BottomRight_ClampOnly(img_w, img_h, tw, th) ==
    LET x0 == img_w - tw - right_offset(img_w)
        y0 == img_h - th - bottom_offset(img_h)
    IN  [x |-> Max(0, x0), y |-> Max(0, y0)]

\* TrueType path, else-branch "bottomright" of the position computation
BottomRightTrueType(img_w, img_h, tw, th) ==
    LET x0 == img_w - tw - right_offset(img_w)
        y0 == img_h - th - bottom_offset(img_h)
    IN  [x |-> IF x0 < 0 THEN Max(0, img_w - tw - DEFAULT_PADDING) ELSE x0,
         y |-> IF y0 < 0 THEN Max(0, img_h - th - DEFAULT_PADDING) ELSE y0]

\* TrueType path: the position computation
PositionTrueType(pos, img_w, img_h, tw, th) ==
    CASE pos = "topleft"    -> [x |-> DEFAULT_PADDING, y |-> DEFAULT_PADDING]
      [] pos = "topright"   -> [x |-> img_w - tw - DEFAULT_PADDING, y |-> DEFAULT_PADDING]
      [] pos = "center"     -> [x |-> (img_w - tw) \div 2, y |-> (img_h - th) \div 2]
      [] pos = "bottomleft" -> [x |-> DEFAULT_PADDING, y |-> img_h - th - DEFAULT_PADDING]
      [] OTHER              -> BottomRightTrueType(img_w, img_h, tw, th)

\* bitmap path, else-branch "bottomright" of the position computation
BottomRightBitmap(img_w, img_h, tw, th) ==
    LET x0 == img_w - tw - right_offset(img_w)
        y0 == img_h - th - bottom_offset(img_h)
    IN  [x |-> IF x0 < 0 THEN Max(0, img_w - tw - DEFAULT_PADDING) ELSE x0,
         y |-> IF y0 < 0 THEN Max(0, img_h - th - DEFAULT_PADDING) ELSE y0]

\* bitmap path: the position computation
PositionBitmap(pos, img_w, img_h, tw, th) ==
    CASE pos = "topleft"    -> [x |-> DEFAULT_PADDING, y |-> DEFAULT_PADDING]
      [] pos = "topright"   -> [x |-> img_w - tw - DEFAULT_PADDING, y |-> DEFAULT_PADDING]
      [] pos = "center"     -> [x |-> (img_w - tw) \div 2, y |-> (img_h - th) \div 2]
      [] pos = "bottomleft" -> [x |-> DEFAULT_PADDING, y |-> img_h - th - DEFAULT_PADDING]
      [] OTHER              -> BottomRightBitmap(img_w, img_h, tw, th)

\* Rendered sizes near the image's own size n: from `margin` below it to MaxOver above.
Near(n, margin) == {t \in 1..(n + MaxOver) : t >= n - margin}

IdleLay == [pos |-> None, img_w |-> 0, img_h |-> 0, tw |-> 0, th |-> 0,
            font |-> None, x |-> 0, y |-> 0]
IdlePrs == [s |-> << >>, result |-> Nothing]
IdleExf == None
IdleFs  == [typed |-> "eof", at |-> "missing", name |-> << >>, listing |-> << >>,
            outdir |-> "absent", truetype |-> FALSE, fallback_to_filetime |-> FALSE]
IdleCfg == [color_input |-> Nothing, font_input |-> Nothing, pos_input |-> Nothing,
            color |-> Nothing, font |-> Nothing, pos |-> None]

BatchIdle ==
    /\ fs = IdleFs /\ targets = << >> /\ done = 0 /\ outcomes = << >>
    /\ console = << >> /\ exit_status = Nothing /\ cfg = IdleCfg

batch_vars == <<fs, targets, done, outcomes, console, exit_status, cfg>>

\* One image after the final measurement of the text: its size, the watermark's
\* size and the corner.  The four fixed-padding corners are drawn on the small
\* images only; the bottom-right corner on all of them.
InitLayout ==
    /\ pc = "place"
    /\ \E w \in 1..MaxW, h \in 1..MaxH :
         \E a \in Near(w, MaxMargin), b \in Near(h, MaxMarginH) :
           \E p \in (IF w <= MaxH THEN Positions ELSE {"bottomright"}) :
             lay = [pos |-> p, img_w |-> w, img_h |-> h, tw |-> a, th |-> b,
                    font |-> None, x |-> 0, y |-> 0]
    /\ BatchIdle /\ prs = IdlePrs /\ exf = IdleExf

\* truetype_candidate is set: the text is measured, placed and drawn
PlaceTrueType ==
    /\ pc = "place"
    /\ LET o == PositionTrueType(lay.pos, lay.img_w, lay.img_h, lay.tw, lay.th)
       IN  lay' = [lay EXCEPT !.font = "truetype", !.x = o.x, !.y = o.y]
    /\ pc' = "placed"
    /\ UNCHANGED <<batch_vars, prs, exf>>

\* no TrueType font: the scaled bitmap is placed and pasted
PlaceBitmap ==
    /\ pc = "place"
    /\ LET o == PositionBitmap(lay.pos, lay.img_w, lay.img_h, lay.tw, lay.th)
       IN  lay' = [lay EXCEPT !.font = "bitmap", !.x = o.x, !.y = o.y]
    /\ pc' = "placed"
    /\ UNCHANGED <<batch_vars, prs, exf>>

NextLayout == PlaceTrueType \/ PlaceBitmap

SpecLayout == InitLayout /\ [][NextLayout]_vars

Placed == pc = "placed"
PlacedBottomRight == Placed /\ lay.pos = "bottomright"

\* C3: for the bottom-right corner the origin is never negative, whatever the
\* image size and the watermark size (also a watermark larger than the image),
\* on the TrueType path and on the bitmap path.
C3_OriginNonNegative ==
    PlacedBottomRight => (lay.x >= 0 /\ lay.y >= 0)

C3_Witness ==
    /\ PlacedBottomRight /\ lay.font = "bitmap"
    /\ lay.tw > lay.img_w /\ lay.th > lay.img_h
    /\ lay.x = 0 /\ lay.y = 0

\* C4 as stated: whenever W*0.92 - tw < 0 (H*0.95 - th < 0) the coordinate of
\* that axis is the fixed-padding value max(0, W - tw - pad) (max(0, H - th - pad)).
C4_Original ==
    PlacedBottomRight =>
        /\ (92 * lay.img_w < 100 * lay.tw =>
                lay.x = Max(0, lay.img_w - lay.tw - DEFAULT_PADDING))
        /\ (95 * lay.img_h < 100 * lay.th =>
                lay.y = Max(0, lay.img_h - lay.th - DEFAULT_PADDING))

\* C4 amended: the test is on the rounded margin.  Whenever
\* W - tw - round(W*0.08) < 0 (H - th - round(H*0.05) < 0) the coordinate of that
\* axis is max(0, W - tw - pad) (max(0, H - th - pad)) with pad = 12.
C4_FallbackOnRoundedMargin ==
    PlacedBottomRight =>
        /\ (lay.img_w - lay.tw - right_offset(lay.img_w) < 0 =>
                lay.x = Max(0, lay.img_w - lay.tw - DEFAULT_PADDING))
        /\ (lay.img_h - lay.th - bottom_offset(lay.img_h) < 0 =>
                lay.y = Max(0, lay.img_h - lay.th - DEFAULT_PADDING))

\* the fallback is taken and leaves a positive coordinate
C4_Witness ==
    /\ PlacedBottomRight /\ lay.font = "truetype"
    /\ lay.img_w - lay.tw - right_offset(lay.img_w) < 0
    /\ lay.x = lay.img_w - lay.tw - DEFAULT_PADDING /\ lay.x > 0

\* ------------------------------------------------ parse_font_input alone

FontChars == {"0", "1", "5", ".", "-", "%", "p", "x", "X", " "}
FontSamples ==
    { <<"a", "u", "t", "o">>, <<"A", "u", "t", "o">>, <<"b", "o", "g", "u", "s">>,
      <<"8">>, <<"2", "4", "p", "x">>, <<"1", "0", "0", ".", "5">>,
      <<"1", "5", "0", ".", "5", "%">>, <<"0", ".", "0", "5", "%">> }
FontInputs == Strings(FontChars, MaxFontLen) \cup FontSamples

InitFont ==
    /\ pc = "parse_font"
    /\ \E s \in FontInputs : prs = [s |-> s, result |-> Nothing]
    /\ BatchIdle /\ lay = IdleLay /\ exf = IdleExf

ParseFont ==
    /\ pc = "parse_font"
    /\ prs' = [prs EXCEPT !.result = Some(parse_font_input(prs.s))]
    /\ pc' = "parsed_font"
    /\ UNCHANGED <<batch_vars, lay, exf>>

NextFont == ParseFont

SpecFont == InitFont /\ [][NextFont]_vars

\* Comparison of the rationals a and b, and of a rational with m / 10^e / 100.
RatEq(a, b) == a.n * b.d = b.n * a.d
RatLe(a, b) == a.n * b.d <= b.n * a.d
Percent(num) == [n |-> num.m, d |-> Pow10(num.e + 2)]
\* number/100 brought into [0.001, 1.0]
Clamped(v) ==
    IF RatLe(v, [n |-> 1, d |-> 1000]) THEN [n |-> 1, d |-> 1000]
    ELSE IF RatLe([n |-> 1, d |-> 1], v) THEN [n |-> 1, d |-> 1]
    ELSE v
IsRatio(r, v) ==
    r.mode = "ratio" /\ r.pixels = Nothing /\ r.ratio # Nothing /\ RatEq(r.ratio[1], Clamped(v))

ColorChars == {"#", "F", "1", "-", " "}
ColorInputs == Strings(ColorChars, MaxColorLen)

InitColor ==
    /\ pc = "parse_color"
    /\ \E s \in ColorInputs : prs = [s |-> s, result |-> Nothing]
    /\ BatchIdle /\ lay = IdleLay /\ exf = IdleExf

ParseColor ==
    /\ pc = "parse_color"
    /\ prs' = [prs EXCEPT !.result = Some(parse_color_input(prs.s))]
    /\ pc' = "parsed_color"
    /\ UNCHANGED <<batch_vars, lay, exf>>

NextColor == ParseColor

SpecColor == InitColor /\ [][NextColor]_vars

\* C6: a hex string of 3 or 6 hex digits, with or without a leading "#", gives
\* its expanded value with alpha 255; any other non-empty string (wrong length
\* after one leading "#" is removed, or a character that is no hex digit) gives
\* the default (255, 255, 255, 255) and a warning.  Blanks around the text are
\* not counted (main strips them); the empty text is the documented "default".
C6_ColorInputMapping ==
    pc = "parsed_color" =>
      LET t     == Strip(prs.s)
          h     == IF t # << >> /\ Head(t) = "#" THEN Tail(t) ELSE t
          valid == Len(h) \in {3, 6} /\ AllIn(h, HexChars)
          r     == prs.result[1]
      IN  /\ (valid /\ Len(h) = 3) =>
                /\ r.color = <<17 * HexVal(h[1]), 17 * HexVal(h[2]), 17 * HexVal(h[3]), 255>>
                /\ ~r.warning
          /\ (valid /\ Len(h) = 6) =>
                /\ r.color = <<16 * HexVal(h[1]) + HexVal(h[2]),
                               16 * HexVal(h[3]) + HexVal(h[4]),
                               16 * HexVal(h[5]) + HexVal(h[6]), 255>>
                /\ ~r.warning
          /\ (t # << >> /\ ~valid) => (r.color = <<255, 255, 255, 255>> /\ r.warning)

\* ------------------------------------------------------ read_exif_date

\* The text of a date tag is kept as the shape it has and the date it spells.
\* "empty" is a tag that is present with an empty value; "Y:m:d H:M" is a text
\* that only the last-resort branch (first token, ":" replaced by "-") parses.
DatedShapes == {"Y:m:d H:M:S", "Y-m-d H:M:S", "Y:m:d", "Y:m:d H:M"}
TagValues ==
    [shape : DatedShapes, date : 1..MaxDates]
        \cup {[shape |-> "empty", date |-> 0], [shape |-> "garbage", date |-> 0]}
\* A tag of a file: Nothing when the file does not carry it.
Tags == {Nothing} \cup {Some(v) : v \in TagValues}

\* Returns Some(date) or Nothing.
parse_exif_datetime(v) ==
    IF v.shape = "empty" THEN Nothing
    ELSE IF v.shape \in {"Y:m:d H:M:S", "Y-m-d H:M:S", "Y:m:d"} THEN Some(v.date)
    ELSE IF v.shape = "Y:m:d H:M" THEN Some(v.date)
    ELSE Nothing

\* Python truth value of dict.get(tag): absent and empty values are falsy.
Truthy(tag) == tag # Nothing /\ tag[1].shape # "empty"

\* The structured reader looking at DateTimeDigitized before DateTimeOriginal.
read_exif_date_DigitizedFirst(f) ==
    IF f.load_fails THEN Nothing
    ELSE IF f.piexif THEN
        IF Truthy(f.DateTimeDigitized) THEN parse_exif_datetime(f.DateTimeDigitized[1])
        ELSE IF Truthy(f.DateTimeOriginal) THEN parse_exif_datetime(f.DateTimeOriginal[1])
        ELSE IF Truthy(f.DateTime) THEN parse_exif_datetime(f.DateTime[1])
        ELSE Nothing
    ELSE
        IF Truthy(f.DateTimeOriginal) THEN parse_exif_datetime(f.DateTimeOriginal[1])
        ELSE IF Truthy(f.DateTime) THEN parse_exif_datetime(f.DateTime[1])
        ELSE Nothing

\* f: the file's three date tags, whether piexif was imported, and whether
\* reading the metadata raises (piexif.load, Image.open, _getexif).
read_exif_date(f) ==
    IF f.load_fails THEN Nothing
    ELSE IF f.piexif THEN
        LET dto == IF Truthy(f.DateTimeOriginal) THEN f.DateTimeOriginal
                   ELSE f.DateTimeDigitized
        IN  IF Truthy(dto) THEN parse_exif_datetime(dto[1])
            ELSE IF Truthy(f.DateTime) THEN parse_exif_datetime(f.DateTime[1])
            ELSE Nothing
    ELSE
        \* for tag in (36867, 306): DateTimeOriginal, then DateTime
        IF Truthy(f.DateTimeOriginal) THEN parse_exif_datetime(f.DateTimeOriginal[1])
        ELSE IF Truthy(f.DateTime) THEN parse_exif_datetime(f.DateTime[1])
        ELSE Nothing

InitExif ==
    /\ pc = "read_exif"
    /\ \E o \in Tags, d \in Tags, t \in Tags, px \in BOOLEAN, lf \in BOOLEAN :
         exf = [piexif |-> px, load_fails |-> lf, DateTimeOriginal |-> o,
                DateTimeDigitized |-> d, DateTime |-> t, result |-> Nothing]
    /\ BatchIdle /\ lay = IdleLay /\ prs = IdlePrs

ReadExifDate ==
    /\ pc = "read_exif"
    /\ exf' = [exf EXCEPT !.result = read_exif_date(exf)]
    /\ pc' = "read_exif_done"
    /\ UNCHANGED <<batch_vars, lay, prs>>

NextExif == ReadExifDate

SpecExif == InitExif /\ [][NextExif]_vars

\* The date of the first tag of `order` that holds a (non-empty) value.
RECURSIVE FirstPresent(_)
FirstPresent(order) ==
    IF order = << >> THEN Nothing
    ELSE IF Truthy(Head(order)) THEN parse_exif_datetime(Head(order)[1])
    ELSE FirstPresent(Tail(order))

ExifRead == pc = "read_exif_done" /\ ~exf.load_fails

\* C9 as stated: the structured reader takes DateTimeOriginal, else
\* DateTimeDigitized, else DateTime; without it the basic accessor takes
\* DateTimeOriginal, else DateTimeDigitized.
C9_Original ==
    ExifRead =>
        exf.result =
            IF exf.piexif
            THEN FirstPresent(<<exf.DateTimeOriginal, exf.DateTimeDigitized, exf.DateTime>>)
            ELSE FirstPresent(<<exf.DateTimeOriginal, exf.DateTimeDigitized>>)

\* C9 amended: the structured reader takes DateTimeOriginal, else
\* DateTimeDigitized, else DateTime; without it the basic accessor takes
\* DateTimeOriginal (36867), else the generic DateTime (306), and never looks at
\* DateTimeDigitized.  The result is the date of the first tag, in that order,
\* that holds a non-empty value.
C9_TagPriority ==
    ExifRead =>
        exf.result =
            IF exf.piexif
            THEN FirstPresent(<<exf.DateTimeOriginal, exf.DateTimeDigitized, exf.DateTime>>)
            ELSE FirstPresent(<<exf.DateTimeOriginal, exf.DateTime>>)

\* without piexif, a file with DateTimeDigitized and DateTime gets DateTime's date
C9_Witness ==
    /\ ExifRead /\ ~exf.piexif
    /\ exf.DateTimeOriginal = Nothing
    /\ exf.DateTimeDigitized = Some([shape |-> "Y:m:d H:M:S", date |-> 1])
    /\ exf.DateTime = Some([shape |-> "Y:m:d H:M:S", date |-> 2])
    /\ exf.result = Some(2)

\* ------------------------------------------------------------ the batch

\* is_image_file: str(path).lower().endswith((".jpg", ..., ".tiff"))
ImageSuffixes ==
    { <<".", "j", "p", "g">>,
      <<".", "j", "p", "e", "g">>,
      <<".", "p", "n", "g">>,
      <<".", "w", "e", "b", "p">>,
      <<".", "b", "m", "p">>,
      <<".", "t", "i", "f">>,
      <<".", "t", "i", "f", "f">> }
is_image_file(name) == \E suffix \in ImageSuffixes : EndsWith(Lower(name), suffix)

\* Path.suffix.lower(): from the last "." of the name on
Suffix(name) ==
    LET dots == {i \in 2..Len(name) : name[i] = "."}
    IN  IF dots = {} THEN << >>
        ELSE Lower(SubSeq(name, CHOOSE i \in dots : \A j \in dots : j <= i, Len(name)))

\* What can lie in the input directory, or be the input path itself.
FileNames == { <<"a", ".", "j", "p", "g">>, <<"b", ".", "P", "N", "G">>, <<"c", ".", "t", "i", "f">>, <<"d", ".", "t", "x", "t">> }
Entries == [name : FileNames, is_file : {TRUE}]
               \cup {[name |-> <<"e", ".", "j", "p", "g">>, is_file |-> FALSE]}
Listings ==
    {l \in UNION {[1..n -> Entries] : n \in 0..MaxFiles} :
        \A i, j \in 1..Len(l) : l[i].name = l[j].name => i = j}

\* What the operator types at a prompt: "eof" for end of input, else the text.
ColorTyped == { <<"#", "F", "1", "1">>, <<"r", "e", "d">> }
FontTyped  == { <<"2", "4", "p", "x">>, <<"b", "o", "g", "u", "s">> }
PosTyped   == { <<" ", "T", "o", "p", "-", "L", "e", "f", "t">>, <<"l", "e", "f", "t">> }

\* The files' metadata as process_image meets it.
ExifSamples ==
    { [piexif |-> TRUE, load_fails |-> FALSE, DateTimeOriginal |-> Nothing,
       DateTimeDigitized |-> Nothing, DateTime |-> Nothing, result |-> Nothing],
      [piexif |-> TRUE, load_fails |-> FALSE,
       DateTimeOriginal |-> Some([shape |-> "Y:m:d H:M:S", date |-> 1]),
       DateTimeDigitized |-> Nothing, DateTime |-> Nothing, result |-> Nothing],
      [piexif |-> TRUE, load_fails |-> FALSE,
       DateTimeOriginal |-> Some([shape |-> "garbage", date |-> 0]),
       DateTimeDigitized |-> Nothing, DateTime |-> Nothing, result |-> Nothing],
      [piexif |-> TRUE, load_fails |-> TRUE, DateTimeOriginal |-> Nothing,
       DateTimeDigitized |-> Nothing, DateTime |-> Nothing, result |-> Nothing] }

\* The library calls of process_image that can raise.  "native_save" is
\* rgba.save(outpath) in the branch of the other extensions, whose except-clause
\* saves as PNG instead; "save" is a save that fails for good.
Steps == {"open", "convert", "font", "draw", "makedirs", "native_save", "save"}

\* What one call of process_image meets: the file's metadata, whether stat()
\* works (it is called only under fallback_to_filetime), and the first call
\* that raises.
Envs(fallback_to_filetime) ==
    [f : ExifSamples, stat_ok : IF fallback_to_filetime THEN BOOLEAN ELSE {TRUE},
     raises : Steps \cup {"none"}]

Line(kind, t) == [kind |-> kind, t |-> t]

\* --------------------------------------------------------- process_image

\* The date lookup with the flag ignored: the file time is always tried.
CaptureDate_AlwaysFiletime(exif_dt, fallback_to_filetime, stat_ok) ==
    IF exif_dt # Nothing THEN Some([src |-> "exif", date |-> exif_dt[1]])
    ELSE IF stat_ok THEN Some([src |-> "mtime", date |-> 0])
    ELSE Nothing

\* dt = read_exif_date(path); if not dt and fallback_to_filetime: the file's mtime
CaptureDate(exif_dt, fallback_to_filetime, stat_ok) ==
    IF exif_dt # Nothing THEN Some([src |-> "exif", date |-> exif_dt[1]])
    ELSE IF fallback_to_filetime /\ stat_ok THEN Some([src |-> "mtime", date |-> 0])
    ELSE Nothing

Outcome(result, step, exif, dt, font, lines, outdir, saved_as) ==
    [result |-> result, step |-> step, exif |-> exif, dt |-> dt, font |-> font,
     lines |-> lines, outdir |-> outdir, saved_as |-> saved_as]

\* One call for target number t, named `name`; truetype says whether
\* load_truetype_candidate finds a font on this machine.  The result says how
\* the call ended ("Crashed": an exception left process_image), at which step,
\* what read_exif_date gave, the date used, the font path, the lines printed,
\* the output directory afterwards and the format written (None: no file).
process_image(t, name, outdir, fallback_to_filetime, truetype, e) ==
    LET exif == read_exif_date(e.f)
        dt   == CaptureDate(exif, fallback_to_filetime, e.stat_ok)
        font == IF truetype THEN "truetype" ELSE "bitmap"
        warn == IF truetype THEN << >> ELSE <<Line("warn_bitmap", t)>>
        ext  == Suffix(name)
        made == IF outdir = "absent" THEN "created" ELSE outdir
        jpg  == ext \in {<<".", "j", "p", "g">>, <<".", "j", "p", "e", "g">>}
        png  == ext = <<".", "p", "n", "g">>
    IN  IF e.raises = "open"
        THEN Outcome("Failed", "open", Nothing, Nothing, None,
                     <<Line("Failed", t)>>, outdir, None)
        ELSE IF dt = Nothing
        THEN Outcome("Skipped", "date", exif, Nothing, None,
                     <<Line("Skipped", t)>>, outdir, None)
        ELSE IF e.raises = "convert"
        THEN Outcome("Crashed", "convert", exif, dt, font, << >>, outdir, None)
        ELSE IF e.raises \in {"font", "draw", "makedirs"}
        THEN Outcome("Crashed", e.raises, exif, dt, font, warn, outdir, None)
        ELSE IF e.raises = "save" \/ (e.raises = "native_save" /\ (jpg \/ png))
        THEN Outcome("Failed", "save", exif, dt, font,
                     warn \o <<Line("Failed", t)>>, made, None)
        ELSE Outcome("Saved", "save", exif, dt, font,
                     warn \o <<Line("Saved", t)>>, made,
                     IF jpg THEN "JPEG"
                     ELSE IF png \/ e.raises = "native_save" THEN "PNG"
                     ELSE "native")

\* ------------------------------------------------------------------ main

Say(line) == console' = Append(console, line)
Exit(kind, status) ==
    /\ Say(Line(kind, 0))
    /\ exit_status' = Some(status)
    /\ pc' = "exited"

\* input() at the path prompt
ReadPath ==
    /\ pc = "prompt_path"
    /\ IF fs.typed = "eof"
       THEN Exit("eof_exit", 1)
       ELSE pc' = "check_path" /\ UNCHANGED <<console, exit_status>>
    /\ UNCHANGED <<fs, targets, done, outcomes, cfg, lay, prs, exf>>

\* The existence check exiting with status 0.
CheckPath_ExitZero ==
    /\ pc = "check_path"
    /\ IF fs.typed = "blank" THEN Exit("empty_exit", 1)
       ELSE IF fs.at = "missing" THEN Exit("missing_exit", 0)
       ELSE pc' = "enumerate" /\ UNCHANGED <<console, exit_status>>
    /\ UNCHANGED <<fs, targets, done, outcomes, cfg, lay, prs, exf>>

\* if not input_path ... ; if not p.exists() ...
CheckPath ==
    /\ pc = "check_path"
    /\ IF fs.typed = "blank" THEN Exit("empty_exit", 1)
       ELSE IF fs.at = "missing" THEN Exit("missing_exit", 1)
       ELSE pc' = "enumerate" /\ UNCHANGED <<console, exit_status>>
    /\ UNCHANGED <<fs, targets, done, outcomes, cfg, lay, prs, exf>>

\* the children of the directory that are files with an image extension
ImageChildren(listing) ==
    LET kept == SelectSeq(listing, LAMBDA c : c.is_file /\ is_image_file(c.name))
    IN  [i \in 1..Len(kept) |-> kept[i].name]

\* targets = [...]; the two exits; "found n images"
Enumerate ==
    /\ pc = "enumerate"
    /\ IF fs.at = "file" /\ ~is_image_file(fs.name)
       THEN Exit("unsupported_exit", 1) /\ UNCHANGED targets
       ELSE LET ts == IF fs.at = "dir" THEN ImageChildren(fs.listing) ELSE <<fs.name>>
            IN  /\ targets' = ts
                /\ IF ts = << >>
                   THEN Exit("no_targets_exit", 0)
                   ELSE Say(Line("found", Len(ts))) /\ pc' = "prompt_color"
                            /\ UNCHANGED exit_status
    /\ UNCHANGED <<fs, done, outcomes, cfg, lay, prs, exf>>

\* What the operator does at a prompt: end of input, or a line of text.  Once
\* standard input has ended (`before` is the previous prompt's answer), it has
\* ended for the later prompts too.
Typed(texts, before) ==
    {[eof |-> TRUE, text |-> << >>]}
        \cup (IF before # Nothing /\ before[1].eof THEN {}
              ELSE {[eof |-> FALSE, text |-> x] : x \in texts})
\* What input(...).strip() leaves in the variable; EOFError leaves "".
Entered(typed) == IF typed.eof THEN << >> ELSE Strip(typed.text)

\* the color prompt and parse_color_input
PromptColor ==
    /\ pc = "prompt_color"
    /\ \E typed \in Typed(ColorTyped, Nothing) :
         LET r == parse_color_input(Entered(typed))
         IN  /\ cfg' = [cfg EXCEPT !.color_input = Some(typed), !.color = Some(r.color)]
             /\ console' = IF r.warning THEN Append(console, Line("warn_color", 0))
                           ELSE console
    /\ pc' = "prompt_font"
    /\ UNCHANGED <<fs, targets, done, outcomes, exit_status, lay, prs, exf>>

\* the size prompt and parse_font_input
PromptFont ==
    /\ pc = "prompt_font"
    /\ \E typed \in Typed(FontTyped, cfg.color_input) :
         cfg' = [cfg EXCEPT !.font_input = Some(typed),
                            !.font = Some(parse_font_input(Entered(typed)))]
    /\ pc' = "prompt_pos"
    /\ UNCHANGED <<fs, targets, done, outcomes, console, exit_status, lay, prs, exf>>

\* the position prompt and parse_position_input
PromptPos ==
    /\ pc = "prompt_pos"
    /\ \E typed \in Typed(PosTyped, cfg.font_input) :
         cfg' = [cfg EXCEPT !.pos_input = Some(typed),
                            !.pos = parse_position_input(Entered(typed))]
    /\ pc' = "start"
    /\ UNCHANGED <<fs, targets, done, outcomes, console, exit_status, lay, prs, exf>>

\* main creating the output directory itself before the loop.
StartLoop_MakesDir ==
    /\ pc = "start"
    /\ Say(Line("start", 0))
    /\ fs' = [fs EXCEPT !.outdir = IF @ = "absent" THEN "created" ELSE @]
    /\ pc' = "loop"
    /\ UNCHANGED <<targets, done, outcomes, exit_status, cfg, lay, prs, exf>>

\* outdir = p / "_watermark" (a path, nothing is created); "start processing"
StartLoop ==
    /\ pc = "start"
    /\ Say(Line("start", 0))
    /\ pc' = "loop"
    /\ UNCHANGED <<fs, targets, done, outcomes, exit_status, cfg, lay, prs, exf>>

\* for t in targets: process_image(...).  An exception that leaves
\* process_image leaves main too: traceback, exit status 1.
ProcessNext ==
    /\ pc = "loop" /\ done < Len(targets)
    /\ \E e \in Envs(fs.fallback_to_filetime) :
         LET r == process_image(done + 1, targets[done + 1], fs.outdir,
                                fs.fallback_to_filetime, fs.truetype, e)
         IN  /\ outcomes' = Append(outcomes, r)
             /\ fs' = [fs EXCEPT !.outdir = r.outdir]
             /\ IF r.result = "Crashed"
                THEN /\ console' = console \o r.lines \o <<Line("Traceback", done + 1)>>
                     /\ exit_status' = Some(1)
                     /\ pc' = "crashed"
                     /\ UNCHANGED done
                ELSE /\ console' = console \o r.lines
                     /\ done' = done + 1
                     /\ UNCHANGED <<pc, exit_status>>
    /\ UNCHANGED <<targets, cfg, lay, prs, exf>>

\* print("all done"); main returns and the interpreter exits with status 0
Finish ==
    /\ pc = "loop" /\ done = Len(targets)
    /\ Say(Line("all_done", 0))
    /\ exit_status' = Some(0)
    /\ pc' = "done"
    /\ UNCHANGED <<fs, targets, done, outcomes, cfg, lay, prs, exf>>

\* What the operator types at the path prompt and what lies there; whether the
\* output directory is there already and whether the machine has a TrueType font.
InitMain(flags, outdirs, fonts) ==
    /\ pc = "prompt_path"
    /\ \/ \E typed \in {"eof", "blank"} : fs = [IdleFs EXCEPT !.typed = typed]
       \/ \E od \in outdirs, tt \in fonts, fl \in flags :
            LET there == [IdleFs EXCEPT !.typed = "path", !.outdir = od, !.truetype = tt,
                                        !.fallback_to_filetime = fl]
            IN  \/ fs = there
                \/ \E n \in FileNames : fs = [there EXCEPT !.at = "file", !.name = n]
                \/ \E l \in Listings : fs = [there EXCEPT !.at = "dir", !.listing = l]
    /\ targets = << >> /\ done = 0 /\ outcomes = << >> /\ console = << >>
    /\ exit_status = Nothing /\ cfg = IdleCfg
    /\ lay = IdleLay /\ prs = IdlePrs /\ exf = IdleExf

\* main as the script runs it: FALLBACK_TO_FILETIME = False
Init == InitMain({FALSE}, {"absent", "preexisting"}, BOOLEAN)

Next ==
    \/ ReadPath \/ CheckPath \/ Enumerate
    \/ PromptColor \/ PromptFont \/ PromptPos \/ StartLoop
    \/ ProcessNext \/ Finish

Spec == Init /\ [][Next]_vars

\* The same run with process_image's parameter fallback_to_filetime left open,
\* on a machine with a TrueType font and no output directory yet.
InitAnyFlag == InitMain(BOOLEAN, {"absent"}, {TRUE})
SpecAnyFlag == InitAnyFlag /\ [][Next]_vars

\* ------------------------------------------------ the claims on the batch

Printed(kind) == \E i \in DOMAIN console : console[i].kind = kind
OutcomeLines(t) ==
    {i \in DOMAIN console : console[i].t = t /\ console[i].kind \in {"Saved", "Skipped", "Failed"}}

\* C1: no failure inside process_image halts the batch: the run never ends on an
\* exception, and when it ends every target has exactly one Saved, Skipped or
\* Failed line and the final message is printed.
C1_BatchNeverHalts ==
    /\ pc # "crashed"
    /\ pc = "done" =>
         /\ \A t \in DOMAIN targets : Cardinality(OutcomeLines(t)) = 1
         /\ console[Len(console)].kind = "all_done"

ZeroMatches == fs.typed = "path" /\ fs.at = "dir" /\ ImageChildren(fs.listing) = << >>
FatalInput ==
    \/ fs.typed = "blank"
    \/ fs.typed = "path" /\ fs.at = "missing"
    \/ fs.typed = "path" /\ fs.at = "file" /\ ~is_image_file(fs.name)
    \/ ZeroMatches
NothingProcessed == outcomes = << >> /\ done = 0 /\ fs.outdir # "created"

\* C2 as stated: each of the four fatal input errors ends the run before any
\* file is processed and before the output directory is created, with an exit
\* status other than the 0 of a completed run.
C2_Original ==
    /\ (FatalInput /\ pc = "exited") =>
            (NothingProcessed /\ exit_status # Nothing /\ exit_status # Some(0))
    /\ FatalInput => pc \in {"prompt_path", "check_path", "enumerate", "exited"}
    /\ pc = "done" => exit_status = Some(0)

\* C2 amended: each of the four fatal input errors ends the run before any file
\* is processed and before the output directory is created; the empty path, the
\* non-existent path and the unsupported single file exit with status 1, the
\* directory with zero matching files exits with status 0, the status of a
\* completed run.
C2_FatalInputErrors ==
    /\ (FatalInput /\ pc = "exited") =>
            (NothingProcessed /\ exit_status = Some(IF ZeroMatches THEN 0 ELSE 1))
    /\ FatalInput => pc \in {"prompt_path", "check_path", "enumerate", "exited"}
    /\ pc = "done" => exit_status = Some(0)

\* a directory holding only a text file: the run ends with status 0
C2_Witness ==
    /\ pc = "exited" /\ ZeroMatches /\ Len(fs.listing) = 1
    /\ exit_status = Some(0) /\ NothingProcessed

BadColor(typed) ==
    ~typed.eof /\ Strip(typed.text) # << >> /\ ~parse_hex_color_to_rgba(Strip(typed.text)).ok
BadSize(typed) ==
    LET raw == Lower(Strip(typed.text))
    IN  ~typed.eof /\ raw # << >> /\ raw # <<"a", "u", "t", "o">>
            /\ parse_font_input(typed.text).mode = "auto"
BadCorner(typed) ==
    LET raw == Lower(Strip(typed.text))
    IN  ~typed.eof /\ raw # << >> /\ mapping_get(raw) = None

\* C7: a bad color, an unparseable size and an unknown corner are each replaced
\* by the default (white, auto at 0.10, bottom-right) with a warning printed for
\* that input; no answer at these prompts, end of input included, ends the run,
\* which goes on to process every target.
C7_ConfigErrorsRecovered ==
    /\ (cfg.color_input # Nothing /\ BadColor(cfg.color_input[1])) =>
            (cfg.color = Some(<<255, 255, 255, 255>>) /\ Printed("warn_color"))
    /\ (cfg.font_input # Nothing /\ BadSize(cfg.font_input[1])) =>
            (cfg.font = Some(AutoResult) /\ Printed("warn_size"))
    /\ (cfg.pos_input # Nothing /\ BadCorner(cfg.pos_input[1])) =>
            (cfg.pos = DEFAULT_POS /\ Printed("warn_position"))
    /\ cfg.color_input # Nothing =>
            (pc # "exited" /\ (pc \in {"done", "crashed"} => done = Len(targets)))

Started == pc \in {"loop", "done", "crashed"}
ReachedSave == \E i \in DOMAIN outcomes : outcomes[i].step = "save"

Range(seq) == {seq[i] : i \in DOMAIN seq}

\* C10: a target is Saved only with a capture date.  Without a date in the
\* metadata and without fallback_to_filetime the call reports Skipped and writes
\* nothing; with the flag the date is the file's mtime (or, stat failing, the
\* file is skipped).  Only files with an image extension are targets, and only
\* targets are attempted.
C10_SavedOnlyWithDate ==
    /\ \A i \in DOMAIN outcomes :
         LET o == outcomes[i]
         IN  /\ o.result = "Saved" => o.dt # Nothing
             /\ o.saved_as # None => o.result = "Saved"
             /\ (o.step # "open" /\ o.exif = Nothing /\ ~fs.fallback_to_filetime) =>
                    (o.result = "Skipped" /\ o.saved_as = None
                        /\ Cardinality(OutcomeLines(i)) = 1)
             /\ (o.step # "open" /\ o.exif = Nothing /\ fs.fallback_to_filetime) =>
                    (IF o.dt = Nothing THEN o.result = "Skipped" ELSE o.dt[1].src = "mtime")
             /\ o.exif # Nothing => o.dt = Some([src |-> "exif", date |-> o.exif[1]])
    /\ \A t \in DOMAIN targets : is_image_file(targets[t])
    /\ Len(outcomes) <= Len(targets)
    /\ (fs.at = "dir" /\ pc \notin {"prompt_path", "check_path", "enumerate"}) =>
         \A c \in Range(fs.listing) :
             (c.name \in Range(targets)) <=> (c.is_file /\ is_image_file(c.name))

\* with the flag set, a file without metadata date is saved under its mtime
C10_Witness ==
    /\ pc = "done" /\ fs.fallback_to_filetime /\ fs.at = "dir" /\ Len(fs.listing) = 2
    /\ Len(outcomes) = 1 /\ outcomes[1].result = "Saved"
    /\ outcomes[1].exif = Nothing /\ outcomes[1].dt[1].src = "mtime"

====
